---- MODULE Spec2Model ----
(***************************************************************************)
(* A model of the ExpenseNote REST API (functions/src/index.ts) and of its *)
(* seed script: the transactions and categories collections of the         *)
(* document store, the receipts blob store, and the Express handlers that  *)
(* act on them.                                                            *)
(*                                                                         *)
(* A handler runs from one await to the next in one step: the store call   *)
(* it awaits and the code up to its next store call or its response.       *)
(* Between two steps of one handler the steps of other handlers may        *)
(* happen.  The arrival of a request is part of the first step of its      *)
(* handler.                                                                *)
(*                                                                         *)
(* JSON values are records [k, n, s]: k is the JavaScript kind, n the      *)
(* number (or timestamp) and s the characters of a string.  Strings are    *)
(* sequences of one-character strings so that split, trim, toLowerCase,    *)
(* includes and parseFloat are computed character by character.            *)
(*                                                                         *)
(* Numbers are IEEE 754 doubles.  A number that is an integer of at most   *)
(* IntDigits digits is held in n; any other number (a fraction, a larger   *)
(* integer, Infinity) is held in s as the numeral String(number) gives it, *)
(* with n = 0.  parseFloat, Number and + round to the nearest double, ties *)
(* to even, by exact decimal arithmetic.  -0 is not told from 0.           *)
(*                                                                         *)
(* The fields of a request body range over the values of the data model    *)
(* (a number or a numeral for amount, strings for the other fields), over  *)
(* absent, null, 0 and "", and over numbers where the data model has a     *)
(* string (a note, a category, a file name, an image): no handler checks   *)
(* the type of a field.  The store is available: a call fails              *)
(* only for the reason the store documents (update of a document that does *)
(* not exist, deletion or publication of a blob that does not exist).      *)
(***************************************************************************)
EXTENDS Integers, Sequences, FiniteSets, Bags, TLC

VARIABLES
    txs,       \* collection "transactions": document id -> document data
    cats,      \* collection "categories": document id -> document data
    blobs,     \* storage bucket: the set of object keys
    nextId,    \* next document id the store assigns (ids are never reused)
    now,       \* the store's clock: FieldValue.serverTimestamp()
    inflight,  \* the handlers suspended at an await: a bag of handler records
    sent,      \* the response the latest step sent, NoResponse if it sent none
    seeded     \* how many categories the seed script has added

vars == <<txs, cats, blobs, nextId, now, inflight, sent, seeded>>

storeVars == <<txs, cats, blobs, nextId, now>>

----------------------------------------------------------------------------
(* Bounds of the model.                                                    *)

MaxId == 2        \* ids the store has assigned when the API adds its last document
MaxClock == 3     \* server timestamps ever taken
MaxInFlight == 2  \* handlers suspended between two store calls at one time

----------------------------------------------------------------------------
(* JSON / JavaScript values.                                               *)

Undef == [k |-> "undef", n |-> 0, s |-> <<>>]
Null == [k |-> "null", n |-> 0, s |-> <<>>]
NaN == [k |-> "nan", n |-> 0, s |-> <<>>]
Num(i) == [k |-> "num", n |-> i, s |-> <<>>]
Str(cs) == [k |-> "str", n |-> 0, s |-> cs]
Ts(t) == [k |-> "ts", n |-> t, s |-> <<>>]

EmptyStr == Str(<<>>)

\* JavaScript truthiness: undefined, null, NaN, 0 and "" are falsy.
Truthy(v) ==
    /\ v.k \notin {"undef", "null", "nan"}
    /\ ~(v.k = "num" /\ v.n = 0 /\ v.s = <<>>)
    /\ ~(v.k = "str" /\ v.s = <<>>)

\* a || d
OrElse(v, d) == IF Truthy(v) THEN v ELSE d

----------------------------------------------------------------------------
(* Characters and strings.                                                 *)

Upper == <<"A","B","C","D","E","F","G","H","I","J","K","L","M",
           "N","O","P","Q","R","S","T","U","V","W","X","Y","Z">>
Lower == <<"a","b","c","d","e","f","g","h","i","j","k","l","m",
           "n","o","p","q","r","s","t","u","v","w","x","y","z">>
Digits == <<"0","1","2","3","4","5","6","7","8","9">>

\* The characters of the model in code-unit order.
Ascii == <<" ", "+", ",", "-", ".", "/">> \o Digits \o <<":">> \o Upper \o <<"_">> \o Lower

IndexOf(seq, c) == CHOOSE i \in 1..Len(seq) : seq[i] = c
Has(seq, c) == \E i \in 1..Len(seq) : seq[i] = c

CharCode(c) == IndexOf(Ascii, c)

\* String.prototype.toLowerCase, one character.
LowerChar(c) == IF Has(Upper, c) THEN Lower[IndexOf(Upper, c)] ELSE c

\* String.prototype.toLowerCase
ToLowerCase(cs) == [i \in 1..Len(cs) |-> LowerChar(cs[i])]

\* String.prototype.includes: needle occurs in hay as a contiguous substring.
Includes(hay, needle) ==
    \E i \in 0..(Len(hay) - Len(needle)) :
        \A j \in 1..Len(needle) : hay[i + j] = needle[j]

\* String.prototype.trim (the model's only white space is " ").
RECURSIVE TrimStart(_)
TrimStart(cs) ==
    IF cs # <<>> /\ Head(cs) = " " THEN TrimStart(Tail(cs)) ELSE cs

RECURSIVE TrimEnd(_)
TrimEnd(cs) ==
    IF cs # <<>> /\ cs[Len(cs)] = " " THEN TrimEnd(SubSeq(cs, 1, Len(cs) - 1)) ELSE cs

Trim(cs) == TrimEnd(TrimStart(cs))

\* String.prototype.split(sep) for a one-character separator: always at
\* least one piece, empty pieces kept.
RECURSIVE SplitFrom(_, _, _)
SplitFrom(cs, sep, cur) ==
    IF cs = <<>> THEN <<cur>>
    ELSE IF Head(cs) = sep THEN <<cur>> \o SplitFrom(Tail(cs), sep, <<>>)
    ELSE SplitFrom(Tail(cs), sep, Append(cur, Head(cs)))

Split(cs, sep) == SplitFrom(cs, sep, <<>>)

\* Array.prototype.pop on a non-empty array: its last element.
Pop(arr) == arr[Len(arr)]

\* Lexicographic order of two strings by code unit: -1, 0 or 1.
RECURSIVE StrCmp(_, _)
StrCmp(a, b) ==
    IF a = <<>> /\ b = <<>> THEN 0
    ELSE IF a = <<>> THEN -1
    ELSE IF b = <<>> THEN 1
    ELSE IF CharCode(Head(a)) < CharCode(Head(b)) THEN -1
    ELSE IF CharCode(Head(a)) > CharCode(Head(b)) THEN 1
    ELSE StrCmp(Tail(a), Tail(b))

\* Number -> decimal digits (template literal `${Date.now()}`).
RECURSIVE NatDigits(_)
NatDigits(n) ==
    IF n < 10 THEN <<Digits[n + 1]>>
    ELSE Append(NatDigits(n \div 10), Digits[(n % 10) + 1])

\* The length of the longest prefix of decimal digits.
DigitRun(cs) ==
    CHOOSE k \in 0..Len(cs) :
        /\ \A j \in 1..k : Has(Digits, cs[j])
        /\ k = Len(cs) \/ ~Has(Digits, cs[k + 1])

\* The value of a run of at most 9 decimal digits.
RECURSIVE DigitsValue(_, _)
DigitsValue(cs, acc) ==
    IF cs = <<>> THEN acc
    ELSE DigitsValue(Tail(cs), 10 * acc + (IndexOf(Digits, Head(cs)) - 1))

----------------------------------------------------------------------------
(* Natural numbers of any size, for the arithmetic of doubles: the decimal *)
(* digits of the number, the least significant first, the most             *)
(* significant not 0; <<>> is 0.                                           *)

\* a without the zeros at its high end.
BigStrip(a) ==
    IF \A i \in 1..Len(a) : a[i] = 0 THEN <<>>
    ELSE SubSeq(a, 1, CHOOSE i \in 1..Len(a) :
                          a[i] # 0 /\ \A j \in (i + 1)..Len(a) : a[j] = 0)

RECURSIVE BigOfNat(_)
BigOfNat(n) == IF n = 0 THEN <<>> ELSE <<n % 10>> \o BigOfNat(n \div 10)

\* The number written by the decimal digits cs (most significant first).
BigOfChars(cs) ==
    BigStrip([i \in 1..Len(cs) |-> IndexOf(Digits, cs[Len(cs) + 1 - i]) - 1])

\* The decimal digits of a, most significant first.
BigDigits(a) == [i \in 1..Len(a) |-> a[Len(a) + 1 - i]]

DigitChars(ds) == [i \in 1..Len(ds) |-> Digits[ds[i] + 1]]
Zeros(k) == [i \in 1..k |-> "0"]

\* -1, 0 or 1 as a < b, a = b or a > b.
BigCmp(a, b) ==
    IF Len(a) < Len(b) THEN -1
    ELSE IF Len(a) > Len(b) THEN 1
    ELSE IF a = b THEN 0
    ELSE LET h == CHOOSE i \in 1..Len(a) :
                      a[i] # b[i] /\ \A j \in (i + 1)..Len(a) : a[j] = b[j]
         IN IF a[h] < b[h] THEN -1 ELSE 1

\* The digits at lo..hi of the number with t[i] at 10^(i-1), for a carry
\* c into lo, and the carry out of hi.  The terms t[i] may be negative.
RECURSIVE Carried(_, _, _, _)
CarriedOn(t, hi, l, mid) ==
    LET h == Carried(t, mid + 1, hi, l.c)
    IN [ds |-> l.ds \o h.ds, c |-> h.c]

Carried(t, lo, hi, c) ==
    IF lo = hi THEN [ds |-> <<(t[lo] + c) % 10>>, c |-> (t[lo] + c) \div 10]
    ELSE CarriedOn(t, hi, Carried(t, lo, (lo + hi) \div 2, c), (lo + hi) \div 2)

\* The number with t[i] at 10^(i-1), which is not negative.
Settled(r) == BigStrip(r.ds \o BigOfNat(r.c))

BigOfTerms(t) == IF t = <<>> THEN <<>> ELSE Settled(Carried(t, 1, Len(t), 0))

BigDigit(a, i) == IF i <= Len(a) THEN a[i] ELSE 0

BigAdd(a, b) ==
    BigOfTerms([i \in 1..(IF Len(a) > Len(b) THEN Len(a) ELSE Len(b)) |->
                    BigDigit(a, i) + BigDigit(b, i)])

\* a - b, for a >= b.
BigSub(a, b) == BigOfTerms([i \in 1..Len(a) |-> a[i] - BigDigit(b, i)])

\* a * c, for c up to 2^27.
BigMul(a, c) == BigOfTerms([i \in 1..Len(a) |-> a[i] * c])

\* a * 2^k
RECURSIVE BigShl(_, _)
BigShl(a, k) ==
    IF a = <<>> \/ k <= 27 THEN BigMul(a, 2^k) ELSE BigShl(BigMul(a, 2^27), k - 27)

\* a * 5^k
RECURSIVE BigMul5(_, _)
BigMul5(a, k) ==
    IF a = <<>> \/ k <= 11 THEN BigMul(a, 5^k) ELSE BigMul5(BigMul(a, 5^11), k - 11)

\* a * 10^k
BigShift10(a, k) == IF a = <<>> THEN a ELSE [i \in 1..k |-> 0] \o a

\* How many times t goes into r, and what is left.
RECURSIVE BigDivDigit(_, _, _)
BigDivDigit(r, t, d) ==
    IF BigCmp(r, t) < 0 THEN [d |-> d, r |-> r]
    ELSE BigDivDigit(BigSub(r, t), t, d + 1)

RECURSIVE BigDivAt(_, _, _, _)
BigDivAt(r, d, i, q) ==
    IF i < 0 THEN [q |-> BigStrip(q), r |-> r]
    ELSE LET s == BigDivDigit(r, BigShift10(d, i), 0)
         IN BigDivAt(s.r, d, i - 1, <<s.d>> \o q)

\* The value of a number of at most 9 digits.
BigValue(a) == DigitsValue(DigitChars(BigDigits(a)), 0)

\* Division of the digits lo..hi of a by the integer dv, from the top, r
\* being what is left of the digits above hi: the digits q of the
\* quotient, most significant first, and what is left.
RECURSIVE ShortDiv(_, _, _, _, _)
ShortDivOn(a, dv, lo, h, mid) ==
    LET l == ShortDiv(a, dv, lo, mid, h.r)
    IN [q |-> h.q \o l.q, r |-> l.r]

ShortDiv(a, dv, lo, hi, r) ==
    IF lo = hi THEN [q |-> <<(10 * r + a[lo]) \div dv>>, r |-> (10 * r + a[lo]) % dv]
    ELSE ShortDivOn(a, dv, lo, ShortDiv(a, dv, ((lo + hi) \div 2) + 1, hi, r),
                    (lo + hi) \div 2)

\* The quotient q and the remainder r of a by d, for d > 0.  A divisor of
\* up to 10^8 is divided by digit by digit in integers.
BigDivMod(a, d) ==
    IF a = <<>> THEN [q |-> <<>>, r |-> <<>>]
    ELSE IF Len(d) <= 8 \/ d = BigShift10(<<1>>, 8)
    THEN LET s == ShortDiv(a, BigValue(d), 1, Len(a), 0)
         IN [q |-> BigStrip(BigDigits(s.q)), r |-> BigOfNat(s.r)]
    ELSE BigDivAt(a, d, Len(a) - Len(d), <<>>)

----------------------------------------------------------------------------
(* Doubles.  A finite double is m * 2^e, negated when neg: m is below 2^53 *)
(* and e is at least -1074; m is at least 2^52 unless e is -1074.  Zero    *)
(* has no sign: -0 and 0 are not told apart (the API sends both as 0).     *)

Double(neg, m, e) == [neg |-> neg, inf |-> FALSE, m |-> m, e |-> e]
Infinite(neg) == [neg |-> neg, inf |-> TRUE, m |-> <<>>, e |-> 0]
DoubleZero == Double(FALSE, <<>>, 0)

\* 2^52 = 4503599627370496 and 2^53 = 9007199254740992
Two52 == <<6, 9, 4, 0, 7, 3, 7, 2, 6, 9, 9, 5, 3, 0, 5, 4>>
Two53 == <<2, 9, 9, 0, 4, 7, 4, 5, 2, 9, 9, 1, 7, 0, 0, 9>>

MinExponent == -1074   \* of the least significant bit of a double
MaxExponent == 971

\* An integer that is at least d * log2(10).
Log2Above(d) ==
    IF d >= 0 THEN (d * 3322 + 999) \div 1000 ELSE (d * 3321 + 999) \div 1000

\* a is doubled until it reaches b52 or t reaches tmax.
RECURSIVE ScaleUp(_, _, _, _)
ScaleUp(a, b52, t, tmax) ==
    IF t >= tmax \/ BigCmp(a, b52) >= 0 THEN [a |-> a, t |-> t]
    ELSE ScaleUp(BigMul(a, 2), b52, t + 1, tmax)

\* The finite double m * 2^e, Infinity beyond the largest double.
Finite(neg, m, e) ==
    IF m = <<>> THEN DoubleZero
    ELSE IF e > MaxExponent THEN Infinite(neg)
    ELSE Double(neg, m, e)

\* m * 2^e for m up to 2^53.
Normal(neg, m, e) ==
    Finite(neg, IF m = Two53 THEN Two52 ELSE m, IF m = Two53 THEN e + 1 ELSE e)

\* The quotient qt, rounded up when what is left is above a half (c > 0)
\* or is a half (c = 0) and qt is odd.
RoundedUp(neg, qt, c, e) ==
    Normal(neg, IF c > 0 \/ (c = 0 /\ qt # <<>> /\ qt[1] % 2 = 1)
                THEN BigAdd(qt, <<1>>) ELSE qt, e)

\* dm is the quotient and the remainder of a division by b.
RoundQuotient(neg, dm, b, e) == RoundedUp(neg, dm.q, BigCmp(BigMul(dm.r, 2), b), e)

\* The double nearest to (s.a / b) * 2^(q - s.t).
RoundScaled(neg, s, b, q) == RoundQuotient(neg, BigDivMod(s.a, b), b, q - s.t)

\* The double nearest to (a / b) * 2^(q - t): a is doubled until the
\* quotient has 53 bits or its last bit is that of the smallest double.
RoundFrom(neg, a, b, t, q) ==
    RoundScaled(neg, ScaleUp(a, BigShl(b, 52), t, q - MinExponent), b, q)

\* t is an estimate of the doublings needed.
RoundAt(neg, n, d, t, q) ==
    RoundFrom(neg, IF t >= 0 THEN BigShl(n, t) ELSE n,
              IF t >= 0 THEN d ELSE BigShl(d, 0 - t), t, q)

\* The double nearest to (n / d) * 2^q, for n > 0 and d > 0: round to
\* nearest, ties to even, Infinity beyond the largest double.
RoundToDouble(neg, n, d, q) ==
    LET tmax == q - MinExponent
        est == 52 - Log2Above(Len(n) - Len(d) + 1)
    IN RoundAt(neg, n, d, IF est > tmax THEN tmax ELSE est, q)

\* The double nearest to n * 10^x, for n > 0.
RoundDecimal(neg, n, x) ==
    RoundToDouble(neg, IF x >= 0 THEN BigShift10(n, x) ELSE n,
                  IF x >= 0 THEN <<1>> ELSE BigShift10(<<1>>, 0 - x), 0)

\* The number of zeros at the low end of a, for a > 0.
LowZeros(a) ==
    (CHOOSE i \in 1..Len(a) : a[i] # 0 /\ \A j \in 1..(i - 1) : a[j] = 0) - 1

\* The numbers that round to the double f = m * 2^e (m > 0): those from
\* lo to hi, halfway to the doubles next to f, the two ends included when
\* m is even.  lo, mid (f itself) and hi are integers in units of 10^x.
\* The double below a power of two is half as far as the one above.
Interval(f) ==
    LET q == f.e - 2
        scaled(v) == IF q >= 0 THEN BigShl(v, q) ELSE BigMul5(v, 0 - q)
        m4 == BigMul(f.m, 4)
        below == IF f.m = Two52 /\ f.e > MinExponent THEN <<1>> ELSE <<2>>
    IN [lo |-> scaled(BigSub(m4, below)), mid |-> scaled(m4),
        hi |-> scaled(BigAdd(m4, <<2>>)),
        x |-> IF q >= 0 THEN 0 ELSE q, closed |-> f.m[1] % 2 = 0]

\* The digits ds of a > 0, the first and the last not 0, and n with
\* a * 10^x = 0.ds * 10^n.
Expansion(a, x) ==
    [ds |-> BigDigits(SubSeq(a, LowZeros(a) + 1, Len(a))), n |-> Len(a) + x]

\* Number::toString, step 5: the shortest digits that denote a number
\* that rounds to f; of two such, the nearer to f, then the even one.  iv
\* is the interval of f, p the number of digits tried.
RECURSIVE Shortest(_, _)
Shortest(iv, p) ==
    IF p >= Len(iv.mid) - LowZeros(iv.mid) THEN Expansion(iv.mid, iv.x)
    ELSE LET cut == Len(iv.mid) - p
             down == [i \in 1..Len(iv.mid) |-> IF i <= cut THEN 0 ELSE iv.mid[i]]
             up == BigAdd(down, BigShift10(<<1>>, cut))
             cd == BigCmp(down, iv.lo)
             cu == BigCmp(up, iv.hi)
             okDown == cd > 0 \/ (cd = 0 /\ iv.closed)
             okUp == cu < 0 \/ (cu = 0 /\ iv.closed)
             nearer == BigCmp(BigSub(up, iv.mid), BigSub(iv.mid, down))
             useUp == okUp /\ (~okDown \/ nearer < 0
                               \/ (nearer = 0 /\ down[cut + 1] % 2 = 1))
         IN IF useUp THEN Expansion(up, iv.x)
            ELSE IF okDown THEN Expansion(down, iv.x)
            ELSE Shortest(iv, p + 1)

\* Number::toString, steps 6 to 10: the numeral of 0.ds * 10^n.
Numeral(ds, n) ==
    LET k == Len(ds)
        x == n - 1
        expo == <<"e", IF x < 0 THEN "-" ELSE "+">> \o NatDigits(IF x < 0 THEN 0 - x ELSE x)
    IN IF k <= n /\ n <= 21 THEN DigitChars(ds) \o Zeros(n - k)
       ELSE IF 0 < n /\ n <= 21
            THEN DigitChars(SubSeq(ds, 1, n)) \o <<".">> \o DigitChars(SubSeq(ds, n + 1, k))
       ELSE IF -6 < n /\ n <= 0 THEN <<"0", ".">> \o Zeros(0 - n) \o DigitChars(ds)
       ELSE IF k = 1 THEN DigitChars(ds) \o expo
       ELSE <<Digits[ds[1] + 1], ".">> \o DigitChars(SubSeq(ds, 2, k)) \o expo

Infinity == <<"I","n","f","i","n","i","t","y">>

\* The integers held in the field n of a number have at most this many
\* digits.
IntDigits == 9

\* A number that is no integer of at most IntDigits digits is held by its
\* numeral, String(number), in the field s.
Numbered(neg, cs) ==
    [k |-> "num", n |-> 0, s |-> IF neg THEN <<"-">> \o cs ELSE cs]

\* The number 0.ds * 10^n, negated when neg, ds being its shortest digits.
FromDigits(neg, d) ==
    LET k == Len(d.ds)
        int == DigitsValue(DigitChars(d.ds) \o Zeros(d.n - k), 0)
    IN IF k <= d.n /\ d.n <= IntDigits
       THEN Num(IF neg THEN 0 - int ELSE int)
       ELSE Numbered(neg, Numeral(d.ds, d.n))

\* The number whose double is f.
FromDouble(f) ==
    IF f.inf THEN Numbered(f.neg, Infinity)
    ELSE IF f.m = <<>> THEN Num(0)
    ELSE FromDigits(f.neg, Shortest(Interval(f), 1))

\* The value of the digits of an exponent, held at 100000 when it is
\* larger (such a numeral is Infinity or 0 whatever its digits).
ExponentValue(cs) ==
    LET n == BigDigits(BigOfChars(cs))
    IN IF Len(n) > 5 THEN 100000 ELSE DigitsValue(DigitChars(n), 0)

IsPrefix(p, cs) == Len(p) <= Len(cs) /\ SubSeq(cs, 1, Len(p)) = p

\* The characters of cs after the first n.
Drop(cs, n) == SubSeq(cs, n + 1, Len(cs))

\* 1 when cs starts with a sign, with a decimal point.
SignLen(cs) == IF cs # <<>> /\ Head(cs) \in {"-", "+"} THEN 1 ELSE 0
DotLen(cs) == IF cs # <<>> /\ Head(cs) = "." THEN 1 ELSE 0

\* An ExponentPart of digits ds after a sign of sg characters: the
\* characters it takes and its value; none without a digit.
ExponentOf(sg, neg, ds) ==
    IF ds = <<>> THEN [len |-> 0, x |-> 0]
    ELSE [len |-> 1 + sg + Len(ds), x |-> (IF neg THEN -1 ELSE 1) * ExponentValue(ds)]

ExponentDigits(sg, neg, cs) == ExponentOf(sg, neg, SubSeq(cs, 1, DigitRun(cs)))

\* The ExponentPart at the start of cs.
ExponentPart(cs) ==
    IF cs # <<>> /\ Head(cs) \in {"e", "E"}
    THEN ExponentDigits(SignLen(Tail(cs)), IsPrefix(<<"-">>, Tail(cs)),
                        Drop(Tail(cs), SignLen(Tail(cs))))
    ELSE [len |-> 0, x |-> 0]

\* A mantissa of len characters and digits ds, f of them in the fraction,
\* followed by the exponent part e.
ScanExponent(len, neg, ds, f, e) ==
    [len |-> len + e.len, neg |-> neg, inf |-> FALSE, ds |-> ds, x |-> e.x - f]

\* b holds i digits, then a point when dot = 1, then f digits.
ScanFraction(sg, neg, b, i, dot, f) ==
    IF i + f = 0
    THEN [len |-> 0, neg |-> neg, inf |-> FALSE, ds |-> <<>>, x |-> 0]
    ELSE ScanExponent(sg + i + dot * (1 + f), neg,
                      SubSeq(b, 1, i) \o SubSeq(b, i + 2, i + 1 + f), f,
                      ExponentPart(Drop(b, i + dot * (1 + f))))

ScanMantissa(sg, neg, b, i) ==
    ScanFraction(sg, neg, b, i, DotLen(Drop(b, i)),
                 DotLen(Drop(b, i)) * DigitRun(Drop(b, i + 1)))

\* The numeral at the start of b, after a sign of sg characters.
ScanUnsigned(sg, neg, b) ==
    IF IsPrefix(Infinity, b)
    THEN [len |-> sg + Len(Infinity), neg |-> neg, inf |-> TRUE, ds |-> <<>>, x |-> 0]
    ELSE ScanMantissa(sg, neg, b, DigitRun(b))

\* StrDecimalLiteral at the start of t: how many characters of t it takes
\* (len, 0 when t starts with no numeral), its sign, whether it is Infinity,
\* the digits ds of its integer and fraction parts, and x with the value
\* ds * 10^x.
ScanDecimal(t) == ScanUnsigned(SignLen(t), IsPrefix(<<"-">>, t), Drop(t, SignLen(t)))

\* A numeral of len characters scanned as the natural number n.
Scanned(len, n) ==
    [len |-> len, neg |-> FALSE, inf |-> FALSE, ds |-> DigitChars(BigDigits(n)), x |-> 0]

\* The double of a scanned numeral (its MV, rounded).  A numeral beyond
\* 10^400 is Infinity and one below 10^-400 is 0 whatever its digits.
DoubleOf(sc) ==
    LET n == BigOfChars(sc.ds)
    IN IF sc.inf THEN Infinite(sc.neg)
       ELSE IF n = <<>> THEN DoubleZero
       ELSE IF Len(n) + sc.x > 400 THEN Infinite(sc.neg)
       ELSE IF Len(n) + sc.x < -400 THEN DoubleZero
       ELSE RoundDecimal(sc.neg, n, sc.x)

\* The number of a scanned numeral.  An integer of at most IntDigits
\* digits is its own double.
NumberOf(sc) ==
    LET n == BigOfChars(sc.ds)
        int == DigitsValue(DigitChars(BigDigits(n)) \o Zeros(sc.x), 0)
    IN IF ~sc.inf /\ sc.x >= 0 /\ Len(n) + sc.x <= IntDigits
       THEN Num(IF sc.neg THEN 0 - int ELSE int)
       ELSE FromDouble(DoubleOf(sc))

\* The number of a scanned numeral, NaN when nothing was scanned.
NumberOrNaN(sc) == IF sc.len = 0 THEN NaN ELSE NumberOf(sc)

\* parseFloat on a string: leading white space is skipped and the longest
\* prefix that is a StrDecimalLiteral is taken: an optional sign, then
\* Infinity or digits with an optional fraction and exponent; NaN when
\* there is none.
ParseFloatStr(cs) == NumberOrNaN(ScanDecimal(TrimStart(cs)))

\* parseFloat(v): a number is returned as it is; null and undefined are
\* converted to the strings "null" and "undefined", which start with no
\* numeral.
ParseFloat(v) ==
    CASE v.k = "num" -> v
      [] v.k = "str" -> ParseFloatStr(v.s)
      [] OTHER -> NaN

\* The value of c as a digit, -1 when it is none (hexadecimal at most).
DigitValue(c) ==
    IF Has(Digits, c) THEN IndexOf(Digits, c) - 1
    ELSE IF Has(SubSeq(Lower, 1, 6), c) THEN 9 + IndexOf(Lower, c)
    ELSE IF Has(SubSeq(Upper, 1, 6), c) THEN 9 + IndexOf(Upper, c)
    ELSE -1

RECURSIVE BigOfRadix(_, _, _)
BigOfRadix(cs, radix, acc) ==
    IF cs = <<>> THEN acc
    ELSE BigOfRadix(Tail(cs), radix,
                    BigAdd(BigMul(acc, radix), BigOfNat(DigitValue(Head(cs)))))

\* The radix of a NonDecimalIntegerLiteral (0x, 0o, 0b), 0 when t is none.
RadixOf(t) ==
    LET r == IF Len(t) < 3 \/ t[1] # "0" THEN 0
             ELSE IF t[2] \in {"x", "X"} THEN 16
             ELSE IF t[2] \in {"o", "O"} THEN 8
             ELSE IF t[2] \in {"b", "B"} THEN 2
             ELSE 0
    IN IF r # 0 /\ \A i \in 3..Len(t) : DigitValue(t[i]) >= 0 /\ DigitValue(t[i]) < r
       THEN r ELSE 0

\* Number(string): the whole trimmed string must be a StrNumericLiteral;
\* "" is 0.
NumberOfAll(t, sc) ==
    IF t = <<>> THEN Num(0)
    ELSE IF sc.len = Len(t) THEN NumberOf(sc)
    ELSE NaN

ToNumberTrimmed(t, r) ==
    NumberOfAll(t, IF r # 0
                   THEN Scanned(Len(t), BigOfRadix(SubSeq(t, 3, Len(t)), r, <<>>))
                   ELSE ScanDecimal(t))

ToNumberStr(cs) == ToNumberTrimmed(Trim(cs), RadixOf(Trim(cs)))

\* The number v is below 0.
Negative(v) == v.k = "num" /\ (v.n < 0 \/ (v.s # <<>> /\ v.s[1] = "-"))

\* -v
Negate(v) ==
    IF v.k # "num" THEN v
    ELSE IF v.s = <<>> THEN Num(0 - v.n)
    ELSE IF v.s[1] = "-" THEN Numbered(FALSE, Tail(v.s))
    ELSE Numbered(TRUE, v.s)

\* Math.abs of a number.
AbsOf(x) == IF Negative(x) THEN Negate(x) ELSE x

\* Math.abs(v): v is converted to a number first (null is 0, undefined NaN).
MathAbs(v) ==
    AbsOf(CASE v.k = "num" -> v
            [] v.k = "null" -> Num(0)
            [] v.k = "str" -> ToNumberStr(v.s)
            [] OTHER -> NaN)

\* String(v) for a number or a string, as a template literal takes it.
StringOf(v) ==
    IF v.k = "str" \/ v.s # <<>> THEN v.s
    ELSE IF v.n < 0 THEN <<"-">> \o NatDigits(0 - v.n)
    ELSE NatDigits(v.n)

\* The double of a number: that of its numeral.
ToDouble(v) == DoubleOf(ScanDecimal(StringOf(v)))

\* The sum of two finite doubles, rounded.
\* The sign and the size of a * 2^e, negated when an, plus b * 2^e,
\* negated when bn; c is BigCmp(a, b).
SignedSum(an, a, bn, b, c) ==
    IF an = bn THEN [neg |-> an, n |-> BigAdd(a, b)]
    ELSE IF c > 0 THEN [neg |-> an, n |-> BigSub(a, b)]
    ELSE [neg |-> bn, n |-> BigSub(b, a)]

RoundSum(s, e) == IF s.n = <<>> THEN DoubleZero ELSE RoundToDouble(s.neg, s.n, <<1>>, e)

AlignedAdd(an, a, bn, b, e) == RoundSum(SignedSum(an, a, bn, b, BigCmp(a, b)), e)

DoubleAddAt(f, g, e) == AlignedAdd(f.neg, BigShl(f.m, f.e - e), g.neg, BigShl(g.m, g.e - e), e)

DoubleAdd(f, g) ==
    IF f.m = <<>> THEN g
    ELSE IF g.m = <<>> THEN f
    ELSE DoubleAddAt(f, g, IF f.e < g.e THEN f.e ELSE g.e)

\* a + b for the numbers a and b of doubles f and g.
AddAs(a, f, b, g) ==
    IF f.inf /\ g.inf THEN (IF f.neg = g.neg THEN a ELSE NaN)
    ELSE IF f.inf THEN a
    ELSE IF g.inf THEN b
    ELSE FromDouble(DoubleAdd(f, g))

\* a + b on numbers: NaN when one of them is NaN or they are the two
\* infinities.
NumAdd(a, b) ==
    IF a.k # "num" \/ b.k # "num" THEN NaN
    ELSE IF a.s = <<>> /\ b.s = <<>> /\ a.n + b.n < 10^IntDigits /\ a.n + b.n > 0 - 10^IntDigits
    THEN Num(a.n + b.n)
    ELSE AddAs(a, ToDouble(a), b, ToDouble(b))

\* a - b
NumSub(a, b) == NumAdd(a, Negate(b))

\* The order of two numbers: -1, 0 or 1.
NumCmp(a, b) ==
    IF a = b THEN 0
    ELSE IF a.s = <<>> /\ b.s = <<>> THEN (IF a.n < b.n THEN -1 ELSE 1)
    ELSE IF Negative(NumSub(a, b)) THEN -1 ELSE 1

----------------------------------------------------------------------------
(* The response envelope and the record of a response sent.                *)

\* The data of a response: null, one document, a list of documents, the
\* totals or the result of an upload; items holds the payload.
NullData == [kind |-> "null", items |-> <<>>]
DocData(id, d) == [kind |-> "doc", items |-> <<[id |-> id, fields |-> d]>>]
ListData(items) == [kind |-> "list", items |-> items]

\* successResponse(data, message)
successResponse(data) == [success |-> TRUE, data |-> data]

\* errorResponse(message)
errorResponse == [success |-> FALSE, data |-> NullData]

NoBody == [none |-> Undef]
NoCalls == <<>>

\* A response sent: the route, its :id or :fileName, the body or query of
\* the request, the status, the envelope, and the calls the handler made on
\* the bucket (blobCalls: for each bucket.file(key).delete(), in order, the
\* key and whether the call was fulfilled).
Handled(op, id, body, status, env, calls) ==
    [op |-> op, id |-> id, body |-> body, status |-> status,
     success |-> env.success, data |-> env.data, blobCalls |-> calls]

NoResponse == Handled("none", 0, NoBody, 0, errorResponse, NoCalls)

----------------------------------------------------------------------------
(* The document store (Firestore) as the handlers use it.                  *)

\* doc.exists after collection.doc(id).get()
DocExists(col, id) == id \in DOMAIN col

\* { id: doc.id, ...doc.data() }: the data() of a document that does not
\* exist is undefined and spreads to no field.
DataOf(col, id, blank) == IF id \in DOMAIN col THEN col[id] ELSE blank

\* collection.add(data): the store assigns a fresh id.
DocAdd(col, id, data) == [i \in DOMAIN col \cup {id} |-> IF i = id THEN data ELSE col[i]]

\* The fields of a document after update(u): the fields u names take u's
\* values, every other field keeps its value.
ApplyUpdates(d, u) == [f \in DOMAIN d |-> IF f \in DOMAIN u THEN u[f] ELSE d[f]]

\* A variant of DocUpdate that writes like set(u, {merge: true}): a
\* document that does not exist is created with the fields of u.
DocUpdateUpsert(col, id, u, blank) ==
    [ok |-> TRUE,
     col |-> [i \in DOMAIN col \cup {id} |->
                IF i = id
                THEN ApplyUpdates(IF id \in DOMAIN col THEN col[id] ELSE blank, u)
                ELSE col[i]]]

\* docRef.update(u): rejected (NOT_FOUND) when the document does not exist,
\* and then nothing is written.
DocUpdate(col, id, u, blank) ==
    IF id \in DOMAIN col
    THEN [ok |-> TRUE, col |-> [col EXCEPT ![id] = ApplyUpdates(@, u)]]
    ELSE [ok |-> FALSE, col |-> col]

\* docRef.delete(): succeeds whether or not the document exists.
DocDelete(col, id) == [i \in DOMAIN col \ {id} |-> col[i]]

----------------------------------------------------------------------------
(* Handlers in flight.                                                     *)

TxFields == {"amount", "category", "type", "date", "note", "photoUrl"}

\* A transaction document none of whose fields is set.
BlankTx ==
    [amount |-> Undef, category |-> Undef, type |-> Undef, date |-> Undef,
     note |-> Undef, photoUrl |-> Undef, createdAt |-> Undef, updatedAt |-> Undef]

CatFields == {"name", "color", "icon"}

BlankCat ==
    [name |-> Undef, color |-> Undef, icon |-> Undef,
     createdAt |-> Undef, updatedAt |-> Undef]

\* A handler suspended at an await: its route, the store call it awaits
\* (pc), its :id (for a POST the id of docRef), the body of its request and
\* its local variables: data (doc.data() of DELETE /transactions/:id), name
\* (of POST /upload) and the calls it has made on the bucket.
Handler(op, pc, id, body) ==
    [op |-> op, pc |-> pc, id |-> id, body |-> body,
     data |-> BlankTx, name |-> Undef, calls |-> NoCalls]

Handlers == BagToSet(inflight)

\* One more handler may be in flight.
Free == BagCardinality(inflight) < MaxInFlight

\* The handler has called the store and awaits.
Suspend(h) == inflight' = inflight (+) SetToBag({h})

\* The awaited call of h has returned and h awaits its next call as g.
Resume(h, g) == inflight' = (inflight (-) SetToBag({h})) (+) SetToBag({g})

\* The awaited call of h has returned and h has sent its response.
Finish(h) == inflight' = inflight (-) SetToBag({h})

----------------------------------------------------------------------------
(* Transactions: POST, GET by id, PUT, DELETE.                             *)

\* A variant of PostTxRejected that does not look at date.
PostTxRejectedNoDate(b) ==
    ~Truthy(b.amount) \/ ~Truthy(b.category) \/ ~Truthy(b.type)

\* POST /transactions, "Validacion basica": the request is rejected when
\* amount, category, type or date is falsy.
PostTxRejected(b) ==
    ~Truthy(b.amount) \/ ~Truthy(b.category) \/ ~Truthy(b.type) \/ ~Truthy(b.date)

\* The document POST /transactions adds.
NewTransaction(b, t) ==
    [amount |-> ParseFloat(b.amount),
     category |-> b.category,
     type |-> b.type,
     date |-> b.date,
     note |-> OrElse(b.note, EmptyStr),
     photoUrl |-> OrElse(b.photoUrl, Null),
     createdAt |-> Ts(t),
     updatedAt |-> Undef]

\* The updates object of PUT /transactions/:id: one entry per field of the
\* body that is not undefined, amount through parseFloat, and updatedAt.
TxUpdates(b, t) ==
    [f \in {g \in TxFields : b[g] # Undef} \cup {"updatedAt"} |->
        IF f = "updatedAt" THEN Ts(t)
        ELSE IF f = "amount" THEN ParseFloat(b.amount)
        ELSE b[f]]

\* `receipts/${fileName}`
Receipts == <<"r","e","c","e","i","p","t","s","/">>
BlobKey(name) == Receipts \o name

\* DELETE /transactions/:id, "Si tiene foto": the keys the handler calls
\* bucket.file(key).delete() with.  A truthy photoUrl that is no string has
\* no split method: the TypeError is caught like a failed deletion.
PhotoBlobCalls(data) ==
    IF Truthy(data.photoUrl) /\ data.photoUrl.k = "str"
    THEN LET fileName == Pop(Split(data.photoUrl.s, "/"))
         IN IF fileName # <<>> THEN <<BlobKey(fileName)>> ELSE <<>>
    ELSE <<>>

\* bucket.file(key).delete(): the object is removed; the call is rejected
\* when there is no such object.
BlobDelete(bs, key) == [ok |-> key \in bs, blobs |-> bs \ {key}]

\* GET /transactions/:id
GetTransaction(id) ==
    /\ sent' = IF ~DocExists(txs, id)
               THEN Handled("getTx", id, NoBody, 404, errorResponse, NoCalls)
               ELSE Handled("getTx", id, NoBody, 200,
                            successResponse(DocData(id, txs[id])), NoCalls)
    /\ UNCHANGED <<storeVars, inflight, seeded>>

\* POST /transactions, lines 96-117: the validation and
\* await db.collection("transactions").add(transaction).
PostTransaction(b) ==
    IF PostTxRejected(b)
    THEN /\ sent' = Handled("postTx", 0, b, 400, errorResponse, NoCalls)
         /\ UNCHANGED <<storeVars, inflight, seeded>>
    ELSE /\ Free
         /\ nextId <= MaxId
         /\ now < MaxClock
         /\ txs' = DocAdd(txs, nextId, NewTransaction(b, now))
         /\ nextId' = nextId + 1
         /\ now' = now + 1
         /\ Suspend(Handler("postTx", "get", nextId, b))
         /\ sent' = NoResponse
         /\ UNCHANGED <<cats, blobs, seeded>>

\* POST /transactions, lines 118-125: const newDoc = await docRef.get(),
\* and the response.
PostTransactionGet(h) ==
    /\ h.op = "postTx"
    /\ h.pc = "get"
    /\ sent' = Handled("postTx", h.id, h.body, 201,
                       successResponse(DocData(h.id, DataOf(txs, h.id, BlankTx))), NoCalls)
    /\ Finish(h)
    /\ UNCHANGED <<storeVars, seeded>>

\* PUT /transactions/:id, lines 133-152: const doc = await docRef.get(),
\* the 404, and the updates object.
PutTransaction(id, b) ==
    IF ~DocExists(txs, id)
    THEN /\ sent' = Handled("putTx", id, b, 404, errorResponse, NoCalls)
         /\ UNCHANGED <<storeVars, inflight, seeded>>
    ELSE /\ Free
         /\ Suspend(Handler("putTx", "update", id, b))
         /\ sent' = NoResponse
         /\ UNCHANGED <<storeVars, seeded>>

\* PUT /transactions/:id, line 154: await docRef.update(updates); a
\* rejection is answered 500.
PutTransactionUpdate(h) ==
    /\ h.op = "putTx"
    /\ h.pc = "update"
    /\ LET r == DocUpdate(txs, h.id, TxUpdates(h.body, now), BlankTx)
       IN IF r.ok
          THEN /\ now < MaxClock
               /\ txs' = r.col
               /\ now' = now + 1
               /\ Resume(h, [h EXCEPT !.pc = "get"])
               /\ sent' = NoResponse
          ELSE /\ sent' = Handled("putTx", h.id, h.body, 500, errorResponse, NoCalls)
               /\ Finish(h)
               /\ UNCHANGED <<txs, now>>
    /\ UNCHANGED <<cats, blobs, nextId, seeded>>

\* PUT /transactions/:id, lines 155-162: const updated = await docRef.get(),
\* and the response.
PutTransactionGet(h) ==
    /\ h.op = "putTx"
    /\ h.pc = "get"
    /\ sent' = Handled("putTx", h.id, h.body, 200,
                       successResponse(DocData(h.id, DataOf(txs, h.id, BlankTx))), NoCalls)
    /\ Finish(h)
    /\ UNCHANGED <<storeVars, seeded>>

\* DELETE /transactions/:id, lines 170-187: const doc = await docRef.get(),
\* the 404, and the file name of the photo.
DeleteTransaction(id) ==
    IF ~DocExists(txs, id)
    THEN /\ sent' = Handled("delTx", id, NoBody, 404, errorResponse, NoCalls)
         /\ UNCHANGED <<storeVars, inflight, seeded>>
    ELSE /\ Free
         /\ Suspend([Handler("delTx",
                             IF PhotoBlobCalls(txs[id]) = <<>> THEN "delete" ELSE "blob",
                             id, NoBody)
                        EXCEPT !.data = txs[id]])
         /\ sent' = NoResponse
         /\ UNCHANGED <<storeVars, seeded>>

\* A variant of DelBlobNext without the inner try/catch: the rejection
\* reaches the handler's catch, which answers 500.
DelBlobNextUncaught(ok) == IF ok THEN "delete" ELSE "error"

\* DELETE /transactions/:id, lines 183-192: where the handler goes on after
\* bucket.file(key).delete() was fulfilled (ok) or rejected: the rejection
\* is caught and logged.
DelBlobNext(ok) == "delete"

\* DELETE /transactions/:id, line 188:
\* await bucket.file(`receipts/${fileName}`).delete()
DeleteTransactionBlob(h) ==
    /\ h.op = "delTx"
    /\ h.pc = "blob"
    /\ LET key == Head(PhotoBlobCalls(h.data))
           r == BlobDelete(blobs, key)
           next == DelBlobNext(r.ok)
           calls == Append(h.calls, [key |-> key, ok |-> r.ok])
       IN /\ blobs' = r.blobs
          /\ IF next = "error"
             THEN /\ sent' = Handled("delTx", h.id, NoBody, 500, errorResponse, calls)
                  /\ Finish(h)
             ELSE /\ Resume(h, [h EXCEPT !.pc = next, !.calls = calls])
                  /\ sent' = NoResponse
    /\ UNCHANGED <<txs, cats, nextId, now, seeded>>

\* DELETE /transactions/:id, lines 195-196: await docRef.delete(), and the
\* response.
DeleteTransactionDoc(h) ==
    /\ h.op = "delTx"
    /\ h.pc = "delete"
    /\ txs' = DocDelete(txs, h.id)
    /\ sent' = Handled("delTx", h.id, NoBody, 200, successResponse(NullData), h.calls)
    /\ Finish(h)
    /\ UNCHANGED <<cats, blobs, nextId, now, seeded>>

----------------------------------------------------------------------------
(* Categories: POST, GET by id, PUT, DELETE.                               *)

\* The document POST /categories adds.
NewCategory(b, t) ==
    [name |-> b.name,
     color |-> OrElse(b.color, Null),
     icon |-> OrElse(b.icon, Null),
     createdAt |-> Ts(t),
     updatedAt |-> Undef]

\* The updates object of PUT /categories/:id.
CatUpdates(b, t) ==
    [f \in {g \in CatFields : b[g] # Undef} \cup {"updatedAt"} |->
        IF f = "updatedAt" THEN Ts(t) ELSE b[f]]

\* A variant of GetCategory that reads the transactions collection.
GetCategoryOfTransactions(id) ==
    /\ sent' = IF ~DocExists(txs, id)
               THEN Handled("getCat", id, NoBody, 404, errorResponse, NoCalls)
               ELSE Handled("getCat", id, NoBody, 200,
                            successResponse(DocData(id, txs[id])), NoCalls)
    /\ UNCHANGED <<storeVars, inflight, seeded>>

\* GET /categories/:id
GetCategory(id) ==
    /\ sent' = IF ~DocExists(cats, id)
               THEN Handled("getCat", id, NoBody, 404, errorResponse, NoCalls)
               ELSE Handled("getCat", id, NoBody, 200,
                            successResponse(DocData(id, cats[id])), NoCalls)
    /\ UNCHANGED <<storeVars, inflight, seeded>>

\* POST /categories, lines 267-282: the validation and
\* await db.collection("categories").add(category).
PostCategory(b) ==
    IF ~Truthy(b.name)
    THEN /\ sent' = Handled("postCat", 0, b, 400, errorResponse, NoCalls)
         /\ UNCHANGED <<storeVars, inflight, seeded>>
    ELSE /\ Free
         /\ nextId <= MaxId
         /\ now < MaxClock
         /\ cats' = DocAdd(cats, nextId, NewCategory(b, now))
         /\ nextId' = nextId + 1
         /\ now' = now + 1
         /\ Suspend(Handler("postCat", "get", nextId, b))
         /\ sent' = NoResponse
         /\ UNCHANGED <<txs, blobs, seeded>>

\* POST /categories, lines 283-290: const newDoc = await docRef.get(), and
\* the response.
PostCategoryGet(h) ==
    /\ h.op = "postCat"
    /\ h.pc = "get"
    /\ sent' = Handled("postCat", h.id, h.body, 201,
                       successResponse(DocData(h.id, DataOf(cats, h.id, BlankCat))), NoCalls)
    /\ Finish(h)
    /\ UNCHANGED <<storeVars, seeded>>

\* PUT /categories/:id, lines 298-314: const doc = await docRef.get(), the
\* 404, and the updates object.
PutCategory(id, b) ==
    IF ~DocExists(cats, id)
    THEN /\ sent' = Handled("putCat", id, b, 404, errorResponse, NoCalls)
         /\ UNCHANGED <<storeVars, inflight, seeded>>
    ELSE /\ Free
         /\ Suspend(Handler("putCat", "update", id, b))
         /\ sent' = NoResponse
         /\ UNCHANGED <<storeVars, seeded>>

\* PUT /categories/:id, line 316: await docRef.update(updates); a rejection
\* is answered 500.
PutCategoryUpdate(h) ==
    /\ h.op = "putCat"
    /\ h.pc = "update"
    /\ LET r == DocUpdate(cats, h.id, CatUpdates(h.body, now), BlankCat)
       IN IF r.ok
          THEN /\ now < MaxClock
               /\ cats' = r.col
               /\ now' = now + 1
               /\ Resume(h, [h EXCEPT !.pc = "get"])
               /\ sent' = NoResponse
          ELSE /\ sent' = Handled("putCat", h.id, h.body, 500, errorResponse, NoCalls)
               /\ Finish(h)
               /\ UNCHANGED <<cats, now>>
    /\ UNCHANGED <<txs, blobs, nextId, seeded>>

\* PUT /categories/:id, lines 317-324: const updated = await docRef.get(),
\* and the response.
PutCategoryGet(h) ==
    /\ h.op = "putCat"
    /\ h.pc = "get"
    /\ sent' = Handled("putCat", h.id, h.body, 200,
                       successResponse(DocData(h.id, DataOf(cats, h.id, BlankCat))), NoCalls)
    /\ Finish(h)
    /\ UNCHANGED <<storeVars, seeded>>

\* DELETE /categories/:id, lines 332-340: const doc = await docRef.get(),
\* and the 404.
DeleteCategory(id) ==
    IF ~DocExists(cats, id)
    THEN /\ sent' = Handled("delCat", id, NoBody, 404, errorResponse, NoCalls)
         /\ UNCHANGED <<storeVars, inflight, seeded>>
    ELSE /\ Free
         /\ Suspend(Handler("delCat", "delete", id, NoBody))
         /\ sent' = NoResponse
         /\ UNCHANGED <<storeVars, seeded>>

\* DELETE /categories/:id, lines 342-343: await docRef.delete(), and the
\* response.
DeleteCategoryDoc(h) ==
    /\ h.op = "delCat"
    /\ h.pc = "delete"
    /\ cats' = DocDelete(cats, h.id)
    /\ sent' = Handled("delCat", h.id, NoBody, 200, successResponse(NullData), NoCalls)
    /\ Finish(h)
    /\ UNCHANGED <<txs, blobs, nextId, now, seeded>>

----------------------------------------------------------------------------
(* Upload: POST /upload and DELETE /upload/:fileName.                      *)

\* `receipt_${Date.now()}.jpg`
GeneratedName(t) ==
    <<"r","e","c","e","i","p","t","_">> \o NatDigits(t) \o <<".","j","p","g">>

\* The bucket's name (configuration of the deployment).
BucketName == <<"b">>

\* `https://storage.googleapis.com/${bucket.name}/receipts/${name}`
PublicUrl(name) ==
    <<"h","t","t","p","s",":","/","/","s","t","o","r","a","g","e",".",
      "g","o","o","g","l","e","a","p","i","s",".","c","o","m","/">>
    \o BucketName \o <<"/">> \o Receipts \o name

\* { url: publicUrl, fileName: name }: name is the value the request gave
\* for fileName, or the generated name.
UploadData(url, name) ==
    [kind |-> "upload", items |-> <<[url |-> Str(url), fileName |-> name]>>]

\* POST /upload, lines 355-375: the validation, the name
\* (fileName || generated), Buffer.from(imageBase64, "base64"), which throws
\* for an imageBase64 that is a number (the handler answers 500 and nothing
\* is written), and await file.save(buffer, ...): the object
\* `receipts/${name}` is written (created or overwritten).  t is Date.now().
PostUpload(b, t) ==
    IF ~Truthy(b.imageBase64)
    THEN /\ sent' = Handled("postUpload", 0, b, 400, errorResponse, NoCalls)
         /\ UNCHANGED <<storeVars, inflight, seeded>>
    ELSE IF b.imageBase64.k # "str"
    THEN /\ sent' = Handled("postUpload", 0, b, 500, errorResponse, NoCalls)
         /\ UNCHANGED <<storeVars, inflight, seeded>>
    ELSE LET name == OrElse(b.fileName, Str(GeneratedName(t)))
         IN /\ Free
            /\ blobs' = blobs \cup {BlobKey(StringOf(name))}
            /\ Suspend([Handler("postUpload", "public", 0, b) EXCEPT !.name = name])
            /\ sent' = NoResponse
            /\ UNCHANGED <<txs, cats, nextId, now, seeded>>

\* POST /upload, lines 377-382: await file.makePublic(), rejected when the
\* object is gone, and the response.
PostUploadPublic(h) ==
    /\ h.op = "postUpload"
    /\ h.pc = "public"
    /\ sent' = IF BlobKey(StringOf(h.name)) \in blobs
               THEN Handled("postUpload", 0, h.body, 200,
                            successResponse(UploadData(PublicUrl(StringOf(h.name)), h.name)),
                            NoCalls)
               ELSE Handled("postUpload", 0, h.body, 500, errorResponse, NoCalls)
    /\ Finish(h)
    /\ UNCHANGED <<storeVars, seeded>>

\* DELETE /upload/:fileName: a failed deletion is answered 500.
DeleteUpload(name) ==
    LET key == BlobKey(name)
        r == BlobDelete(blobs, key)
    IN /\ blobs' = r.blobs
       /\ sent' = IF r.ok
                  THEN Handled("delUpload", 0, [fileName |-> Str(name)], 200,
                               successResponse(NullData), <<[key |-> key, ok |-> TRUE]>>)
                  ELSE Handled("delUpload", 0, [fileName |-> Str(name)], 500,
                               errorResponse, <<[key |-> key, ok |-> FALSE]>>)
       /\ UNCHANGED <<txs, cats, nextId, now, inflight, seeded>>

----------------------------------------------------------------------------
(* GET /transactions: store-side filters and order, then the text filter.  *)

\* where(field, "==", v): the stored value has v's kind and value.
QueryEquals(stored, v) == stored = v

\* (categoryIds as string).split(",").map((id) => id.trim())
ParseIds(cs) == LET parts == Split(cs, ",") IN [i \in 1..Len(parts) |-> Str(Trim(parts[i]))]

\* where(field, "in", ids): the stored value equals one of ids.
QueryIn(stored, ids) == \E i \in 1..Len(ids) : QueryEquals(stored, ids[i])

\* The store's order of values of different kinds: null, NaN, numbers,
\* timestamps, strings.
KindRank(v) ==
    CASE v.k = "null" -> 0
      [] v.k = "nan" -> 1
      [] v.k = "num" -> 2
      [] v.k = "ts" -> 3
      [] OTHER -> 4

\* The store's order of two field values: -1, 0 or 1.
ValueCmp(a, b) ==
    IF KindRank(a) # KindRank(b) THEN (IF KindRank(a) < KindRank(b) THEN -1 ELSE 1)
    ELSE IF a.k = "str" THEN StrCmp(a.s, b.s)
    ELSE IF a.k = "num" THEN NumCmp(a, b)
    ELSE IF a.n < b.n THEN -1
    ELSE IF a.n > b.n THEN 1
    ELSE 0

\* orderBy("date", "desc"): x comes before y.  Documents with equal dates
\* follow the document id, in the direction of the order.
Before(c, x, y) == c = 1 \/ (c = 0 /\ x > y)

DateBefore(col, x, y) == Before(ValueCmp(col[x].date, col[y].date), x, y)

RECURSIVE OrderByDateDesc(_, _)
OrderFrom(col, ids, first) == <<first>> \o OrderByDateDesc(col, ids \ {first})

OrderByDateDesc(col, ids) ==
    IF ids = {} THEN <<>>
    ELSE OrderFrom(col, ids, CHOOSE x \in ids : \A y \in ids \ {x} : DateBefore(col, x, y))

\* A variant of TypeFilter that never adds the where clause.
TypeFilterOff(q, d) == TRUE

\* The documents the store query selects: the type filter when type is
\* truthy, the category filter when categoryIds is truthy, and only
\* documents that have the field the query orders by.
TypeFilter(q, d) == Truthy(q.type) => QueryEquals(d.type, q.type)

CategoryFilter(q, d) ==
    Truthy(q.categoryIds) => QueryIn(d.category, ParseIds(q.categoryIds.s))

QueryIds(col, q) ==
    {i \in DOMAIN col :
        /\ TypeFilter(q, col[i])
        /\ CategoryFilter(q, col[i])
        /\ col[i].date # Undef}

\* snapshot.docs.map((doc) => ({ id: doc.id, ...doc.data() }))
Docs(col, order) == [i \in 1..Len(order) |-> [id |-> order[i], fields |-> col[order[i]]]]

Snapshot(col, q) == Docs(col, OrderByDateDesc(col, QueryIds(col, q)))

\* "Filtro por texto": is the in-memory filter applied?
TextGiven(q) == Truthy(q.text) /\ q.text.k = "str"

\* (tx.note || "").toLowerCase() throws when the value is truthy and is
\* no string.
LowerThrows(v) == Truthy(v) /\ v.k # "str"

\* The callback of transactions.filter.
TextMatch(d, text) ==
    LET searchText == ToLowerCase(text)
        note == ToLowerCase(OrElse(d.note, EmptyStr).s)
        category == ToLowerCase(OrElse(d.category, EmptyStr).s)
    IN Includes(note, searchText) \/ Includes(category, searchText)

\* Array.prototype.filter
RECURSIVE FilterText(_, _)
FilterText(items, text) ==
    IF items = <<>> THEN <<>>
    ELSE IF TextMatch(Head(items).fields, text)
         THEN <<Head(items)>> \o FilterText(Tail(items), text)
         ELSE FilterText(Tail(items), text)

\* The response of GET /transactions for the query q on collection col.
ListOf(snap, q) ==
    IF ~TextGiven(q)
    THEN Handled("listTx", 0, q, 200, successResponse(ListData(snap)), NoCalls)
    ELSE IF \E i \in 1..Len(snap) :
                LowerThrows(snap[i].fields.note) \/ LowerThrows(snap[i].fields.category)
    THEN Handled("listTx", 0, q, 500, errorResponse, NoCalls)
    ELSE Handled("listTx", 0, q, 200,
                 successResponse(ListData(FilterText(snap, q.text.s))), NoCalls)

ListResponse(col, q) == ListOf(Snapshot(col, q), q)


\* GET /transactions
ListTransactions(q) ==
    /\ sent' = ListResponse(txs, q)
    /\ UNCHANGED <<storeVars, inflight, seeded>>

----------------------------------------------------------------------------
(* GET /totals                                                             *)

INCOME == <<"I","N","C","O","M","E">>
EXPENSE == <<"E","X","P","E","N","S","E">>

\* The last document id of a snapshot.
LastId(ids) == CHOOSE x \in ids : \A y \in ids : y <= x

\* sum, with Math.abs(d.amount) added when the type of d is t.
SumWith(sum, d, t) ==
    IF d.type = Str(t) THEN NumAdd(sum, MathAbs(d.amount)) ELSE sum

\* The sum of Math.abs(amount) over the documents of ids whose type is
\* strictly equal to the string t, added one by one in the order of the
\* snapshot (by document id) from 0.
RECURSIVE SumAbs(_, _, _)
SumAbs(col, ids, t) ==
    IF ids = {} THEN Num(0)
    ELSE SumWith(SumAbs(col, ids \ {LastId(ids)}, t), col[LastId(ids)], t)

\* { income, expense, balance: income - expense }
Totals(sum) ==
    [income |-> sum[INCOME], expense |-> sum[EXPENSE],
     balance |-> NumSub(sum[INCOME], sum[EXPENSE])]

TotalsOf(col) == Totals([t \in {INCOME, EXPENSE} |-> SumAbs(col, DOMAIN col, t)])

TotalsData(col) == [kind |-> "totals", items |-> <<TotalsOf(col)>>]

\* GET /totals
GetTotals ==
    /\ sent' = Handled("totals", 0, NoBody, 200, successResponse(TotalsData(txs)), NoCalls)
    /\ UNCHANGED <<storeVars, inflight, seeded>>

\* The documents of ids in the order of their ids.
RECURSIVE InIdOrder(_, _)
InIdOrder(col, ids) ==
    IF ids = {} THEN <<>>
    ELSE LET m == CHOOSE x \in ids : \A y \in ids : x <= y
         IN <<[id |-> m, fields |-> col[m]]>> \o InIdOrder(col, ids \ {m})

\* GET /categories
ListCategories ==
    /\ sent' = Handled("listCat", 0, NoBody, 200,
                       successResponse(ListData(InIdOrder(cats, DOMAIN cats))), NoCalls)
    /\ UNCHANGED <<storeVars, inflight, seeded>>

----------------------------------------------------------------------------
(* The seed script (scripts/seed): seedCategories().                       *)

Food == <<"F","o","o","d">>
Transport == <<"T","r","a","n","s","p","o","r","t">>
Health == <<"H","e","a","l","t","h">>
Entertainment == <<"E","n","t","e","r","t","a","i","n","m","e","n","t">>
Home == <<"H","o","m","e">>
Salary == <<"S","a","l","a","r","y">>
Other == <<"O","t","h","e","r">>

\* An icon is one character, written here by its code point.
Icon(codePoint) == Str(<<codePoint>>)

\* const categories = [...]
categories ==
    <<[name |-> Str(Food), color |-> Null, icon |-> Icon("U+1F354")],
      [name |-> Str(Transport), color |-> Null, icon |-> Icon("U+1F68C")],
      [name |-> Str(Health), color |-> Null, icon |-> Icon("U+1F3E5")],
      [name |-> Str(Entertainment), color |-> Null, icon |-> Icon("U+1F3AE")],
      [name |-> Str(Home), color |-> Null, icon |-> Icon("U+1F3E0")],
      [name |-> Str(Salary), color |-> Null, icon |-> Icon("U+1F4B0")],
      [name |-> Str(Other), color |-> Null, icon |-> Icon("U+1F4CC")]>>

\* The document add(cat) stores: the script sets no createdAt.
SeedDocument(cat) ==
    [name |-> cat.name, color |-> cat.color, icon |-> cat.icon,
     createdAt |-> Undef, updatedAt |-> Undef]

\* One turn of the loop of seedCategories():
\* await db.collection("categories").add(cat).  The script is run once and
\* exits after the last category.
seedCategories ==
    /\ seeded < Len(categories)
    /\ nextId <= MaxId
    /\ cats' = DocAdd(cats, nextId, SeedDocument(categories[seeded + 1]))
    /\ nextId' = nextId + 1
    /\ seeded' = seeded + 1
    /\ sent' = NoResponse
    /\ UNCHANGED <<txs, blobs, now, inflight>>

----------------------------------------------------------------------------
(* The requests the clients send.                                          *)

Car == <<"C","a","r">>
Lunch == <<"L","u","n","c","h">>
OtherType == <<"O","T","H","E","R">>
Day2 == <<"2","0","2","4","-","0","1","-","0","2">>
Day10 == <<"2","0","2","4","-","0","1","-","1","0">>
Minus40 == <<"-","4","0">>
OneAndHalf == <<"1",".","5">>
Thousand == <<"1","e","3">>
Tenth == <<"0",".","1">>
Fifth == <<"0",".","2">>
FileA == <<"a",".","j","p","g">>
Red == <<"r","e","d">>
Image == <<"a","G","k">>

\* The values a request gives that JavaScript takes for false.
Falsy == {Null, Num(0), EmptyStr}

\* Ids named in requests: some of them name no document.
Ids == 1..MaxId

TxBody(a, c, t, d, n, p) ==
    [amount |-> a, category |-> c, type |-> t, date |-> d, note |-> n, photoUrl |-> p]

TxBase == TxBody(Num(100), Str(Food), Str(INCOME), Str(Day2), Undef, Undef)
TxEmpty == TxBody(Undef, Undef, Undef, Undef, Undef, Undef)

\* A URL whose last path segment is empty.
FolderUrl == PublicUrl(<<>>)

TxFieldValues(f) ==
    Falsy \cup
    CASE f = "amount" -> {Num(100), Str(Minus40), Str(OneAndHalf), Str(Thousand)}
      [] f = "category" -> {Str(Food)}
      [] f = "type" -> {Str(INCOME), Str(EXPENSE)}
      [] f = "date" -> {Str(Day2), Str(Day10)}
      [] f = "note" -> {Str(Lunch)}
      [] f = "photoUrl" -> {Str(PublicUrl(FileA)), Str(FolderUrl)}

\* Bodies of POST /transactions: a complete body, and the same body with
\* one field left out, falsy or different.
PostBodies ==
    {TxBase} \cup
    {[TxBase EXCEPT ![f] = v] : f \in TxFields, v \in {Undef} \cup Falsy} \cup
    UNION {{[TxBase EXCEPT ![f] = v] : v \in TxFieldValues(f)} : f \in TxFields}

CatBody(n, c, i) == [name |-> n, color |-> c, icon |-> i]

CatPutBodies ==
    {CatBody(Undef, Undef, Undef), CatBody(EmptyStr, Undef, Undef),
     CatBody(Str(Car), Undef, Undef), CatBody(Undef, Null, Undef),
     CatBody(Undef, Undef, Num(0))}

\* Date.now() when an upload is handled (kept within TLC's integers).
UploadTimes == {1700000000}

FileNames == {FileA}

NoQuery == [text |-> Undef, type |-> Undef, categoryIds |-> Undef]

\* The requests of the specification of the whole API.
ApiPostBodies ==
    {[TxBase EXCEPT !.photoUrl = Str(PublicUrl(FileA))], [TxBase EXCEPT !.amount = Undef]}

ApiPutBodies == {[TxEmpty EXCEPT !.photoUrl = Str(PublicUrl(FileA))]}

ApiCatPostBodies == {CatBody(Str(Food), Undef, Undef), CatBody(Undef, Undef, Undef)}

ApiCatPutBodies == {CatBody(Str(Car), Undef, Undef)}

ApiUploadBodies ==
    {[imageBase64 |-> Undef, fileName |-> Undef],
     [imageBase64 |-> Str(Image), fileName |-> Undef],
     [imageBase64 |-> Str(Image), fileName |-> Str(FileA)],
     [imageBase64 |-> Num(5), fileName |-> Undef]}

\* Bodies of POST /upload whose fileName or imageBase64 is a number.
UploadBodies ==
    {[imageBase64 |-> Str(Image), fileName |-> Num(5)],
     [imageBase64 |-> Num(5), fileName |-> Num(5)]}

----------------------------------------------------------------------------
(* The API and the seed script.                                            *)

Init ==
    /\ txs = << >>
    /\ cats = << >>
    /\ blobs = {}
    /\ nextId = 1
    /\ now = 0
    /\ inflight = EmptyBag
    /\ sent = NoResponse
    /\ seeded = 0

Next ==
    \/ seedCategories
    \/ \E q \in {NoQuery} : ListTransactions(q)
    \/ \E id \in Ids : GetTransaction(id)
    \/ \E b \in ApiPostBodies : PostTransaction(b)
    \/ \E h \in Handlers : PostTransactionGet(h)
    \/ \E id \in Ids, b \in ApiPutBodies : PutTransaction(id, b)
    \/ \E h \in Handlers : PutTransactionUpdate(h)
    \/ \E h \in Handlers : PutTransactionGet(h)
    \/ \E id \in Ids : DeleteTransaction(id)
    \/ \E h \in Handlers : DeleteTransactionBlob(h)
    \/ \E h \in Handlers : DeleteTransactionDoc(h)
    \/ GetTotals
    \/ ListCategories
    \/ \E id \in Ids : GetCategory(id)
    \/ \E b \in ApiCatPostBodies : PostCategory(b)
    \/ \E h \in Handlers : PostCategoryGet(h)
    \/ \E id \in Ids, b \in ApiCatPutBodies : PutCategory(id, b)
    \/ \E h \in Handlers : PutCategoryUpdate(h)
    \/ \E h \in Handlers : PutCategoryGet(h)
    \/ \E id \in Ids : DeleteCategory(id)
    \/ \E h \in Handlers : DeleteCategoryDoc(h)
    \/ \E b \in ApiUploadBodies, t \in UploadTimes : PostUpload(b, t)
    \/ \E h \in Handlers : PostUploadPublic(h)
    \/ \E n \in FileNames : DeleteUpload(n)

Spec == Init /\ [][Next]_vars

----------------------------------------------------------------------------
(* Creation of transactions and of receipts: every body of PostBodies and  *)
(* of UploadBodies is sent.                                                *)

NextCreate ==
    \/ \E b \in PostBodies : PostTransaction(b)
    \/ \E h \in Handlers : PostTransactionGet(h)
    \/ \E id \in Ids : GetTransaction(id)
    \/ \E b \in UploadBodies, t \in UploadTimes : PostUpload(b, t)
    \/ \E h \in Handlers : PostUploadPublic(h)

SpecCreate == Init /\ [][NextCreate]_vars

----------------------------------------------------------------------------
(* Updates: documents are created by the API and by the seed script, then  *)
(* updated with every body of UpdPutBodies and CatPutBodies while          *)
(* transactions are deleted, and the totals are read.                      *)

UpdPostBodies ==
    {TxBase, TxBody(Str(Minus40), Str(Car), Str(EXPENSE), Str(Day10),
                    Str(Lunch), Str(PublicUrl(FileA)))}

UpdCatPostBodies == {CatBody(Str(Food), Str(Red), Undef)}

\* Bodies of PUT /transactions/:id: the empty body, every body that gives
\* one field null, and bodies that give amount, type or note another value.
UpdPutBodies ==
    {TxEmpty} \cup
    {[TxEmpty EXCEPT ![f] = Null] : f \in TxFields} \cup
    {[TxEmpty EXCEPT !.amount = v] : v \in {Num(0), EmptyStr, Str(Minus40)}} \cup
    {[TxEmpty EXCEPT !.type = Str(EXPENSE)], [TxEmpty EXCEPT !.note = Str(Lunch)]}

NextUpdate ==
    \/ \E b \in UpdPostBodies : PostTransaction(b)
    \/ \E h \in Handlers : PostTransactionGet(h)
    \/ \E id \in DOMAIN txs, b \in UpdPutBodies : PutTransaction(id, b)
    \/ \E h \in Handlers : PutTransactionUpdate(h)
    \/ \E h \in Handlers : PutTransactionGet(h)
    \/ \E b \in UpdCatPostBodies : PostCategory(b)
    \/ \E h \in Handlers : PostCategoryGet(h)
    \/ \E id \in DOMAIN cats, b \in CatPutBodies : PutCategory(id, b)
    \/ \E h \in Handlers : PutCategoryUpdate(h)
    \/ \E h \in Handlers : PutCategoryGet(h)
    \/ \E id \in DOMAIN txs : DeleteTransaction(id)
    \/ \E h \in Handlers : DeleteTransactionBlob(h)
    \/ \E h \in Handlers : DeleteTransactionDoc(h)
    \/ seedCategories
    \/ GetTotals

SpecUpdate == Init /\ [][NextUpdate]_vars

----------------------------------------------------------------------------
(* Queries: GET /transactions and GET /totals on stores of up to           *)
(* MaxQueryDocs documents, each of them a document POST /transactions      *)
(* adds or PUT /transactions/:id leaves behind.                            *)

MaxQueryDocs == 2

Seafood == <<"S","e","a","f","o","o","d">>

QueryBody1 == TxBase
QueryBody2 ==
    TxBody(Str(Minus40), Str(Car), Str(EXPENSE), Str(Day10), Str(Lunch), Str(PublicUrl(FileA)))
QueryBody3 == TxBody(Num(10), Str(Food), Str(OtherType), Str(Day10), Str(Seafood), Undef)
QueryBody4 == TxBody(Str(Tenth), Str(Food), Str(INCOME), Str(Day2), Undef, Undef)
QueryBody5 == TxBody(Numbered(FALSE, Fifth), Str(Food), Str(INCOME), Str(Day2), Undef, Undef)

Updated(b, u) == ApplyUpdates(NewTransaction(b, 0), TxUpdates(u, 1))

\* The documents of the stores queried: those POST /transactions adds for
\* the bodies above and for a body whose note is a number, and those
\* PUT /transactions/:id leaves behind when it sets note, category or date
\* to null, note to 0 or category to a number (no handler checks the type
\* of a field).
QueryPosts ==
    {QueryBody1, QueryBody2, QueryBody3, QueryBody4, QueryBody5,
     [QueryBody1 EXCEPT !.note = Num(5)]}

QueryPuts ==
    {<<QueryBody1, [TxEmpty EXCEPT !.note = Null]>>,
     <<QueryBody2, [TxEmpty EXCEPT !.note = Num(0)]>>,
     <<QueryBody2, [TxEmpty EXCEPT !.category = Null]>>,
     <<QueryBody3, [TxEmpty EXCEPT !.category = Num(7)]>>,
     <<QueryBody2, [TxEmpty EXCEPT !.date = Null]>>}

QueryDocs ==
    {NewTransaction(b, 0) : b \in QueryPosts} \cup {Updated(p[1], p[2]) : p \in QueryPuts}

QueryTexts == {Undef, Str(<<"f","o","o","d">>), Str(<<"L","U","N">>)}
QueryTypes == {Undef, EmptyStr, Str(INCOME)}
QueryCategoryIds == {Undef, EmptyStr, Str(<<" ","C","a","r"," ",",","F","o","o","d">>)}

\* Every combination of the parameters above, and three more requests:
\* an empty text, a type and a category id in another case.
Queries ==
    {[text |-> x, type |-> t, categoryIds |-> c] :
        x \in QueryTexts, t \in QueryTypes, c \in QueryCategoryIds}
    \cup {[NoQuery EXCEPT !.text = EmptyStr],
          [NoQuery EXCEPT !.type = Str(<<"i","n","c","o","m","e">>)],
          [NoQuery EXCEPT !.categoryIds = Str(<<"f","o","o","d">>)]}

InitQuery ==
    /\ \E n \in 0..MaxQueryDocs : txs \in [1..n -> QueryDocs]
    /\ cats = << >>
    /\ blobs = {}
    /\ nextId = MaxQueryDocs + 1
    /\ now = 2
    /\ inflight = EmptyBag
    /\ sent = NoResponse
    /\ seeded = 0

NextQuery ==
    \/ \E q \in Queries : ListTransactions(q)
    \/ GetTotals

SpecQuery == InitQuery /\ [][NextQuery]_vars

----------------------------------------------------------------------------
(* PUT and DELETE of one transaction, in flight together: the store holds  *)
(* no document or one document POST /transactions adds or                  *)
(* PUT /transactions/:id leaves behind, with or without its blob.          *)

ConcPosts ==
    {TxBase, [TxBase EXCEPT !.photoUrl = Str(PublicUrl(FileA))],
     [TxBase EXCEPT !.photoUrl = Str(FolderUrl)]}

ConcDocs ==
    {NewTransaction(b, 0) : b \in ConcPosts}
        \cup {Updated([TxBase EXCEPT !.photoUrl = Str(PublicUrl(FileA))],
                       [TxEmpty EXCEPT !.photoUrl = EmptyStr])}

ConcPutBodies ==
    {[TxEmpty EXCEPT !.note = Str(Lunch)], [TxEmpty EXCEPT !.photoUrl = Null]}

InitConc ==
    /\ txs \in {<< >>} \cup {(1 :> d) : d \in ConcDocs}
    /\ cats = << >>
    /\ blobs \in SUBSET {BlobKey(FileA)}
    /\ nextId = 2
    /\ now = 2
    /\ inflight = EmptyBag
    /\ sent = NoResponse
    /\ seeded = 0

NextConc ==
    \/ \E b \in ConcPutBodies : PutTransaction(1, b)
    \/ \E h \in Handlers : PutTransactionUpdate(h)
    \/ \E h \in Handlers : PutTransactionGet(h)
    \/ DeleteTransaction(1)
    \/ \E h \in Handlers : DeleteTransactionBlob(h)
    \/ \E h \in Handlers : DeleteTransactionDoc(h)

SpecConc == InitConc /\ [][NextConc]_vars

----------------------------------------------------------------------------
(* Vocabulary of the properties, stated without the handlers' operators.   *)

Max(S) == CHOOSE x \in S : \A y \in S : y <= x

\* The text after the last "/" of cs (all of cs when it holds no "/").
LastSegment(cs) ==
    LET slashes == {i \in 1..Len(cs) : cs[i] = "/"}
        from == IF slashes = {} THEN 0 ELSE Max(slashes)
    IN SubSeq(cs, from + 1, Len(cs))

\* a and b are the same character up to the case of a letter.
SameLetter(a, b) == a = b \/ \E i \in 1..26 : {a, b} = {Upper[i], Lower[i]}

\* needle occurs in hay, the case of letters ignored.
ContainsIgnoringCase(hay, needle) ==
    \E off \in 0..(Len(hay) - Len(needle)) :
        \A j \in 1..Len(needle) : SameLetter(hay[off + j], needle[j])

\* The text of a field: a missing (or falsy) field reads as the empty string.
FieldText(v) == IF v.k = "str" THEN v.s ELSE <<>>

\* c is one of the comma-separated entries of list, white space around the
\* entry dropped.
IsTrimmedEntry(list, c) ==
    \E a \in 1..(Len(list) + 1), b \in 0..Len(list) :
        /\ a <= b + 1
        /\ a = 1 \/ list[a - 1] = ","
        /\ b = Len(list) \/ list[b + 1] = ","
        /\ \A i \in a..b : list[i] # ","
        /\ \E l \in a..(b + 1), r \in (a - 1)..b :
              /\ l <= r + 1
              /\ \A i \in a..(l - 1) : list[i] = " "
              /\ \A i \in (r + 1)..b : list[i] = " "
              /\ l <= r => (list[l] # " " /\ list[r] # " ")
              /\ c = SubSeq(list, l, r)

\* The k-th smallest element of a set of numbers.
KthOf(S, k) == CHOOSE i \in S : Cardinality({j \in S : j <= i}) = k

RequiredFields == {"amount", "category", "type", "date"}

\* A required field of the body of POST /transactions is missing.
MissingRequired(b) == \E f \in RequiredFields : b[f] = Undef

\* A parameter or field given with a value other than the empty string.
NonEmpty(v) == v # Undef /\ v # EmptyStr

\* The body of POST /transactions supplies the four required fields: a
\* number or a non-empty string for amount, a non-empty string for
\* category, type and date.
SuppliesRequired(b) ==
    /\ b.amount.k = "num" \/ (b.amount.k = "str" /\ b.amount.s # <<>>)
    /\ \A f \in {"category", "type", "date"} : b[f].k = "str" /\ b[f].s # <<>>


\* The step suspends a new handler g at its first await.
Starts(g) ==
    /\ BagCardinality(inflight') > BagCardinality(inflight)
    /\ CopiesIn(g, inflight') > CopiesIn(g, inflight)

\* The step takes the handler h from its await to its next await, as g.
Moves(h, g) ==
    /\ h # g
    /\ BagCardinality(inflight') = BagCardinality(inflight)
    /\ CopiesIn(h, inflight') < CopiesIn(h, inflight)
    /\ CopiesIn(g, inflight') > CopiesIn(g, inflight)

\* The step ends the handler h: its response is sent'.
Ends(h) ==
    /\ BagCardinality(inflight') < BagCardinality(inflight)
    /\ CopiesIn(h, inflight') < CopiesIn(h, inflight)

----------------------------------------------------------------------------
(* C1: GET /totals.                                                        *)

\* |a| for an amount that is a number.
Magnitude(a) ==
    IF a.k # "num" THEN NaN ELSE IF Negative(a) THEN Negate(a) ELSE a

\* The sum of |amount| over the documents of ids, from the lowest id on.
RECURSIVE AbsSum(_, _)
AbsSum(col, ids) ==
    IF ids = {} THEN Num(0)
    ELSE NumAdd(AbsSum(col, ids \ {Max(ids)}), Magnitude(col[Max(ids)].amount))

\* C1: for every set of stored transactions, GET /totals returns income
\* equal to the sum of |amount| over the transactions of type INCOME,
\* expense equal to the sum of |amount| over those of type EXPENSE (any
\* other type adds to neither), income >= 0, expense >= 0 and
\* balance = income - expense.
C1_TotalsContract ==
    sent.op = "totals" =>
        LET t == sent.data.items[1]
        IN /\ t.income.k = "num" /\ t.expense.k = "num" /\ t.balance.k = "num"
           /\ ~Negative(t.income)
           /\ ~Negative(t.expense)
           /\ t.balance = NumSub(t.income, t.expense)
           /\ t.income = AbsSum(txs, {i \in DOMAIN txs : txs[i].type = Str(INCOME)})
           /\ t.expense = AbsSum(txs, {i \in DOMAIN txs : txs[i].type = Str(EXPENSE)})

----------------------------------------------------------------------------
(* C2: the type and categoryIds filters of GET /transactions.              *)

\* The item of a response satisfies the filter a given parameter states.
MeetsType(item, type) == item.fields.type = type
MeetsCategoryIds(item, categoryIds) ==
    /\ item.fields.category.k = "str"
    /\ IsTrimmedEntry(categoryIds.s, item.fields.category.s)

ReturnedIds == {sent.data.items[i].id : i \in 1..Len(sent.data.items)}

NumberForText(d) ==
    \E v \in {d.note, d.category} : v.k = "num" /\ v # Num(0)

----------------------------------------------------------------------------
(* C3: the text filter of GET /transactions.                               *)

TextMatches(item, text) ==
    \/ ContainsIgnoringCase(FieldText(item.fields.note), text)
    \/ ContainsIgnoringCase(FieldText(item.fields.category), text)

\* The result of the request of sent without its text parameter.
WithoutText == ListResponse(txs, [sent.body EXCEPT !.text = Undef]).data.items

\* C3: for every stored transaction set, a request with a text parameter
\* returns exactly the order-preserving subsequence of the result of the
\* same request without text made of the transactions whose note or
\* category contains the text, the case of letters ignored; a missing note
\* or category reads as the empty string and the request does not fail.
C3_TextFilter ==
    (sent.op = "listTx" /\ sent.body.text # Undef) =>
        LET base == WithoutText
            hits == {i \in 1..Len(base) : TextMatches(base[i], sent.body.text.s)}
        IN /\ sent.status = 200
           /\ sent.success
           /\ sent.data.kind = "list"
           /\ Len(sent.data.items) = Cardinality(hits)
           /\ \A k \in 1..Cardinality(hits) : sent.data.items[k] = base[KthOf(hits, k)]

----------------------------------------------------------------------------
(* C4, C5: POST /transactions.                                             *)

\* C4: a POST /transactions whose body is missing amount, category, type
\* or date is answered 400 with a failure envelope by a step that leaves
\* the transactions collection as it was, and its handler does not go on
\* to the store.
C4_MissingFieldRejected ==
    [][/\ (sent'.op = "postTx" /\ MissingRequired(sent'.body)) =>
              /\ sent'.status = 400
              /\ sent'.success = FALSE
              /\ sent'.data = NullData
              /\ txs' = txs
       /\ \A g \in BagToSet(inflight') :
              (g.op = "postTx" /\ Starts(g)) => ~MissingRequired(g.body)]_vars

\* C4, reached: a body without a date was rejected while the collection
\* held a document.
C4_Witness ==
    /\ sent.op = "postTx"
    /\ sent.body.date = Undef
    /\ sent.body.amount # Undef
    /\ sent.status = 400
    /\ txs # << >>

\* C5: a POST /transactions whose body supplies amount, category, type and
\* date adds exactly one document holding those values, note defaulting to
\* "" and photoUrl to null, and is answered 201; 400 is returned only when
\* a required field is missing.
C5_SuppliedFieldsAccepted ==
    [][/\ (sent'.op = "postTx" /\ SuppliesRequired(sent'.body)) => sent'.status = 201
       /\ \A g \in BagToSet(inflight') :
              (g.op = "postTx" /\ Starts(g) /\ SuppliesRequired(g.body)) =>
                  /\ DOMAIN txs' = DOMAIN txs \cup {g.id}
                  /\ g.id \notin DOMAIN txs
                  /\ \A i \in DOMAIN txs : txs'[i] = txs[i]
                  /\ txs'[g.id].category = g.body.category
                  /\ txs'[g.id].type = g.body.type
                  /\ txs'[g.id].date = g.body.date
                  /\ g.body.note = Undef => txs'[g.id].note = EmptyStr
                  /\ g.body.photoUrl = Undef => txs'[g.id].photoUrl = Null]_vars

----------------------------------------------------------------------------
(* C6: requests that name no document.                                     *)

TxIdOps == {"getTx", "putTx", "delTx"}
CatIdOps == {"getCat", "putCat", "delCat"}

\* C6: a GET, PUT or DELETE on /transactions/:id or /categories/:id whose
\* id names no stored document when the handler looks it up is answered 404
\* with success false and data null by the step of the lookup, which leaves
\* both collections and the blob store unchanged; no handler goes on past
\* the lookup of a document that does not exist.
C6_UnknownIdNotFound ==
    [][/\ \A g \in BagToSet(inflight') :
              Starts(g) =>
                  /\ g.op \in TxIdOps => g.id \in DOMAIN txs
                  /\ g.op \in CatIdOps => g.id \in DOMAIN cats
       /\ (/\ inflight' = inflight
           /\ \/ sent'.op \in TxIdOps /\ sent'.id \notin DOMAIN txs
              \/ sent'.op \in CatIdOps /\ sent'.id \notin DOMAIN cats) =>
              /\ sent'.status = 404
              /\ sent'.success = FALSE
              /\ sent'.data = NullData
              /\ txs' = txs
              /\ cats' = cats
              /\ blobs' = blobs]_vars

\* C6, reached: a DELETE of a category id that names no category, while
\* the store holds a transaction and a blob.
C6_Witness ==
    /\ sent.op = "delCat"
    /\ sent.status = 404
    /\ sent.id < nextId
    /\ sent.id \notin DOMAIN txs
    /\ txs # << >>
    /\ blobs # {}

----------------------------------------------------------------------------
(* C7: DELETE /transactions/:id and the photo of the transaction.          *)

\* The photoUrl is a string whose last path segment is not empty.
NamesFile(v) == v.k = "str" /\ LastSegment(v.s) # <<>>

\* The calls a handler made on the bucket are one call, a deletion of the
\* blob receipts/<last path segment of v>.
OnlyPhoto(calls, v) ==
    /\ Len(calls) = 1
    /\ calls[1].key = Receipts \o LastSegment(v.s)

\* The step ends the DELETE h, which had read a document whose photoUrl is
\* v: the deletion of the photo was attempted before this step, the step
\* removes the document, and the answer is 200 with success true.
PhotoThenDocument(h, v) ==
    /\ OnlyPhoto(h.calls, v)
    /\ OnlyPhoto(sent'.blobCalls, v)
    /\ DocExists(txs, h.id) => txs' = DocDelete(txs, h.id)
    /\ ~DocExists(txs', h.id)
    /\ sent'.status = 200
    /\ sent'.success

\* C7 as stated: DELETE /transactions/:id on an existing transaction whose
\* photoUrl is not null attempts to delete the blob receipts/<last path
\* segment> before it removes the document; if that deletion fails the
\* document is still removed and the answer is 200 with success true.
C7_AnyPhotoUrl ==
    [][\A h \in BagToSet(inflight) :
          (h.op = "delTx" /\ Ends(h) /\ h.data.photoUrl # Null) =>
              PhotoThenDocument(h, h.data.photoUrl)]_vars

\* C7 amended: DELETE /transactions/:id on an existing transaction whose
\* photoUrl is a string with a non-empty last path segment attempts to
\* delete the blob receipts/<last path segment> before it removes the
\* document; if that deletion fails the document is still removed and the
\* answer is 200 with success true.
C7_PhotoUrlNamingFile ==
    [][\A h \in BagToSet(inflight) :
          (h.op = "delTx" /\ Ends(h) /\ NamesFile(h.data.photoUrl)) =>
              PhotoThenDocument(h, h.data.photoUrl)]_vars

\* C7, reached: the deletion of the blob failed and the DELETE answered 200
\* after it removed the document.
C7_Witness ==
    /\ sent.op = "delTx"
    /\ sent.status = 200
    /\ sent.blobCalls = <<[key |-> BlobKey(FileA), ok |-> FALSE]>>
    /\ ~DocExists(txs, sent.id)

----------------------------------------------------------------------------
(* C8: PUT /transactions/:id and PUT /categories/:id.                      *)

\* Document after of collection field set fields was updated from before
\* by body: a field absent from the body keeps its value, a field given
\* null, 0 or "" holds that value, any other field given (the amount
\* aside, which is stored as a number) holds the value given, and
\* createdAt is unchanged.
UpdatedBy(before, after, body, fields) ==
    /\ after.createdAt = before.createdAt
    /\ \A f \in fields :
          /\ body[f] = Undef => after[f] = before[f]
          /\ body[f] \in Falsy => after[f] = body[f]
          /\ (body[f] \notin Falsy \cup {Undef} /\ f # "amount") => after[f] = body[f]

\* The step changes the collection from col to col2 in the document id
\* alone, which stays under its id, as body says.
UpdatesOne(col, col2, id, body, fields) ==
    /\ DOMAIN col2 = DOMAIN col
    /\ \A i \in DOMAIN col \ {id} : col2[i] = col[i]
    /\ UpdatedBy(col[id], col2[id], body, fields)

\* C8: the update of a successful PUT changes, among the caller-settable
\* fields, exactly those present in the body; id and createdAt are
\* unchanged; a field present with null, 0 or "" is stored with that value.
C8_PartialUpdate ==
    [][\A h \in BagToSet(inflight) :
          (h.pc = "update" /\ Moves(h, [h EXCEPT !.pc = "get"])) =>
              /\ h.op = "putTx" => UpdatesOne(txs, txs', h.id, h.body, TxFields)
              /\ h.op = "putCat" => UpdatesOne(cats, cats', h.id, h.body, CatFields)]_vars

----------------------------------------------------------------------------
(* C9: photoUrl and the blob store.                                        *)

\* C9: every stored transaction whose photoUrl is not null names an
\* existing blob, of key receipts/ followed by the last path segment of the
\* photoUrl.
C9_PhotoUrlNamesBlob ==
    \A i \in DOMAIN txs :
        txs[i].photoUrl # Null =>
            /\ txs[i].photoUrl.k = "str"
            /\ (Receipts \o LastSegment(txs[i].photoUrl.s)) \in blobs

----------------------------------------------------------------------------
(* C10: a PUT and a DELETE of one transaction in flight together.          *)

\* C10: from the moment a DELETE /transactions/:id has answered 200, no
\* document with that id exists, whatever a PUT of that id in flight with
\* it does afterwards: a PUT whose existence check ran before the delete
\* does not re-create the transaction.
C10_DeletedStaysDeleted ==
    \A i \in Ids :
        []((sent.op = "delTx" /\ sent.id = i /\ sent.status = 200) => [](~DocExists(txs, i)))

\* C10, reached: the PUT found the document, the DELETE removed it, and
\* the PUT's update, coming after the removal, was rejected.
C10_Witness ==
    /\ sent.op = "putTx"
    /\ sent.status = 500
    /\ ~DocExists(txs, sent.id)

====
